---- MODULE Spec2Model ----
(***************************************************************************)
(* Closed-loop Koopman pipeline: the cross-validation search               *)
(* (dodo.py action_run_cross_validation + optuna_study_open_loop.py main)  *)
(* and the closed-loop composition of action_evaluate_models.              *)
(*                                                                         *)
(* Spec        the orchestrator and the worker processes it spawns         *)
(* SpecWorker  the worker script running trials against a created study    *)
(* SpecSplit   preprocessing and the grouped train/test split of a trial   *)
(* SpecEval    the closed-loop matrices composed by action_evaluate_models *)
(***************************************************************************)
EXTENDS Integers, Sequences, FiniteSets, TLC

VARIABLES
    opc,        \* orchestrator: position in action_run_cross_validation
    db,         \* the sqlite file at study_path: exists, studies, trials
    creator,    \* in-process study object returned by optuna.create_study
    processes,  \* orchestrator: list of Popen objects (pids), in launch order
    widx,       \* orchestrator: position of `for p in processes`
    waited,     \* pids whose exit has been collected by p.wait()
    error,      \* the RuntimeError raised by the orchestrator, if any
    hist,       \* history: who created / wiped the study storage
    wpc,        \* per process: position in main()
    argv,       \* per process: sys.argv[1:]
    args,       \* per process: argparse namespace
    rc,         \* per process: exit status (Popen.returncode)
    study,      \* per process: study object returned by optuna.load_study
    cur,        \* per process: number of the trial being run (0: none)
    r2,         \* per process: the list r2 of objective()
    nrun,       \* per process: trials this process has started
    r2table,    \* score of (alpha, fold) on the fixed data set and split
    spc,        \* data path: raw CSVs, pickled data set, folds being split
    files,      \* row count of each CSV file, in sorted file order
    X_ol_train, \* dataset['open_loop']['X_train'] (rows: episode, sample)
    X_cl_train, \* dataset['closed_loop']['X_train']
    fold,       \* folds yielded so far by gss.split
    train_index,
    test_index,
    X_train_ol_i,
    X_train_cl_i,
    X_test_cl_i,
    epc,        \* action_evaluate_models: inputs loaded / matrices composed
    controller, \* exp_test['closed_loop']['controller']: Ac, Bc, Cc, Dc
    C_plant,    \* exp_test['closed_loop']['C_plant']
    Up_cl,      \* kp_cl.kp_plant_.regressor_.coef_.T
    Up_ol,      \* kp_ol.regressor_.coef_.T
    U_test_cl,
    U_test_ol

ovars == <<opc, db, creator, processes, widx, waited, error, hist>>
wvars == <<wpc, argv, args, rc, study, cur, r2, nrun>>
svars == <<spc, files, X_ol_train, X_cl_train, fold, train_index, test_index,
           X_train_ol_i, X_train_cl_i, X_test_cl_i>>
evars == <<epc, controller, C_plant, Up_cl, Up_ol, U_test_cl, U_test_ol>>
vars == <<opc, db, creator, processes, widx, waited, error, hist,
          wpc, argv, args, rc, study, cur, r2, nrun, r2table,
          spc, files, X_ol_train, X_cl_train, fold, train_index, test_index,
          X_train_ol_i, X_train_cl_i, X_test_cl_i,
          epc, controller, C_plant, Up_cl, Up_ol, U_test_cl, U_test_ol>>

----------------------------------------------------------------------------
(* Program constants *)

OPTUNA_TPE_SEED == 3501

SKLEARN_SPLIT_SEED == 1234

n_processes == 6

n_trials == 30

\* optuna.pruners.ThresholdPruner(lower=-10)
lower == -10

\* sklearn.model_selection.GroupShuffleSplit(n_splits=3, ...)
n_splits == 3

\* exit status of argparse's parser.error()
ArgparseErrorCode == 2

\* exit status of an uncaught Python exception
UncaughtCode == 1

\* Popen.returncode of a child killed by SIGKILL (-signal number)
KilledCode == -9

\* optuna default MedianPruner(n_startup_trials=5)
n_startup_trials == 5

----------------------------------------------------------------------------
(* Bounds of the model *)

\* trials the (otherwise endless) study.optimize loop may start in total
MaxTrials == 7

Procs == 1..n_processes

----------------------------------------------------------------------------
(* Strings and conversions *)

\* str(int) / int(str) on the values that occur on a command line
Numerals ==
    {<<n_trials, "30">>, <<SKLEARN_SPLIT_SEED, "1234">>}

Str(n) ==
    (CHOOSE p \in Numerals : p[1] = n)[2]

IsIntLiteral(s) ==
    \E p \in Numerals : p[2] = s

Int_(s) ==
    (CHOOSE p \in Numerals : p[2] = s)[1]

ExperimentPath == "build/experiments/dataset_training_controller.pickle"

LiftingFunctionsPath == "build/lifting_functions/lifting_functions.pickle"

StudyPath == "build/studies/open_loop.db"

StudyType == "open_loop"

storage_url == "sqlite:///build/studies/open_loop.db"

\* the argument list of subprocess.Popen after ['python', script_path]
PopenArgs ==
    <<ExperimentPath, LiftingFunctionsPath, storage_url,
      Str(n_trials), Str(SKLEARN_SPLIT_SEED)>>

----------------------------------------------------------------------------
(* argparse: four positionals, the last one of type int *)

Positionals ==
    <<"experiment_path", "lifting_functions_path", "study_path",
      "sklearn_split_seed">>

NoArgs ==
    [parsed |-> FALSE, experiment_path |-> "", lifting_functions_path |-> "",
     study_path |-> "", sklearn_split_seed |-> 0]

\* parser.parse_args(): too few arguments, a non-int seed or leftover
\* arguments end in parser.error() (exit status 2); otherwise the namespace
ParseOk(a) ==
    /\ Len(a) = Len(Positionals)
    /\ IsIntLiteral(a[4])

parse_args(a) ==
    IF ParseOk(a)
    THEN [parsed |-> TRUE, experiment_path |-> a[1],
          lifting_functions_path |-> a[2], study_path |-> a[3],
          sklearn_split_seed |-> Int_(a[4])]
    ELSE NoArgs

----------------------------------------------------------------------------
(* Study storage *)

NoStudy ==
    [loaded |-> FALSE, seeded |-> FALSE, sampler_seed |-> 0, pruner |-> "none"]

EmptyDb == [exists |-> FALSE, studies |-> <<>>, trials |-> <<>>]

\* a data base left behind by an earlier run of the task
StaleDb ==
    [exists |-> TRUE,
     studies |-> <<[study_name |-> StudyType, direction |-> "maximize"]>>,
     trials |-> <<[state |-> "completed", alpha |-> 1, iv |-> <<0, 0, 0>>,
                   steps |-> <<0, 1, 2>>,
                   value |-> [num |-> 0, den |-> 3], by |-> 1]>>]

\* the object optuna.create_study returns to the orchestrator
CreatedStudy ==
    [loaded |-> TRUE, seeded |-> TRUE, sampler_seed |-> OPTUNA_TPE_SEED,
     pruner |-> "threshold"]

\* what create_study writes to the storage
CreatedDb ==
    [exists |-> TRUE,
     studies |-> <<[study_name |-> StudyType, direction |-> "maximize"]>>,
     trials |-> <<>>]

NoHist == [creates |-> <<>>, wipes |-> 0, liveWipes |-> 0]

Running(w) == wpc[w] \notin {"unborn", "exited"}

Exited(w) == wpc[w] = "exited"

Launched(w) == wpc[w] # "unborn"

NoError == [raised |-> FALSE, pid |-> 0, code |-> 0]

----------------------------------------------------------------------------
(* dodo.py: action_run_cross_validation *)

\* study_path.unlink(missing_ok=True)
Unlink ==
    /\ opc = "unlink"
    /\ db' = EmptyDb
    /\ hist' = IF db.exists
               THEN [hist EXCEPT !.wipes = @ + 1,
                                 !.liveWipes = @ + Cardinality({w \in Procs : Running(w)})]
               ELSE hist
    /\ opc' = "create"
    /\ UNCHANGED <<creator, processes, widx, waited, error, wvars, r2table, svars, evars>>

\* optuna.create_study(storage, sampler=TPESampler(seed), pruner=ThresholdPruner,
\* study_name, direction): the storage keeps name and direction; sampler and
\* pruner live in the returned object only
create_study ==
    /\ opc = "create"
    /\ ~db.exists
    /\ db' = CreatedDb
    /\ creator' = CreatedStudy
    /\ hist' = [hist EXCEPT !.creates = Append(@, "orchestrator")]
    /\ opc' = "spawn"
    /\ UNCHANGED <<processes, widx, waited, error, wvars, r2table, svars, evars>>

\* Popen with the data base file deleted inside the launch loop
PopenUnlinks(p) ==
    /\ opc = "spawn"
    /\ p = Len(processes) + 1
    /\ p <= n_processes
    /\ db' = EmptyDb
    /\ hist' = [hist EXCEPT !.wipes = @ + 1,
                            !.liveWipes = @ + Cardinality({w \in Procs : Running(w)})]
    /\ wpc' = [wpc EXCEPT ![p] = "parse"]
    /\ argv' = [argv EXCEPT ![p] = PopenArgs]
    /\ processes' = Append(processes, p)
    /\ opc' = IF p = n_processes THEN "wait" ELSE "spawn"
    /\ UNCHANGED <<creator, widx, waited, error,
                   args, rc, study, cur, r2, nrun, r2table, svars, evars>>

\* one iteration of `for i in range(n_processes)`: subprocess.Popen([...])
Popen(p) ==
    /\ opc = "spawn"
    /\ p = Len(processes) + 1
    /\ p <= n_processes
    /\ wpc' = [wpc EXCEPT ![p] = "parse"]
    /\ argv' = [argv EXCEPT ![p] = PopenArgs]
    /\ processes' = Append(processes, p)
    /\ opc' = IF p = n_processes THEN "wait" ELSE "spawn"
    /\ UNCHANGED <<db, creator, widx, waited, error, hist,
                   args, rc, study, cur, r2, nrun, r2table, svars, evars>>

\* one iteration of `for p in processes`: p.wait() blocks until p has exited;
\* a negative return code raises RuntimeError at once
Wait ==
    /\ opc = "wait"
    /\ LET p == processes[widx]
       IN /\ Exited(p)
          /\ waited' = waited \cup {p}
          /\ IF rc[p] < 0
             THEN /\ error' = [raised |-> TRUE, pid |-> p, code |-> rc[p]]
                  /\ opc' = "raised"
                  /\ widx' = widx
             ELSE /\ error' = error
                  /\ opc' = IF widx = Len(processes) THEN "done" ELSE "wait"
                  /\ widx' = IF widx = Len(processes) THEN widx ELSE widx + 1
    /\ UNCHANGED <<db, creator, processes, hist, wvars, r2table, svars, evars>>

----------------------------------------------------------------------------
(* optuna_study_open_loop.py: main *)

\* args = parser.parse_args()
ParseArgs(w) ==
    /\ wpc[w] = "parse"
    /\ args' = [args EXCEPT ![w] = parse_args(argv[w])]
    /\ IF ParseOk(argv[w])
       THEN /\ wpc' = [wpc EXCEPT ![w] = "load"]
            /\ rc' = rc
       ELSE /\ wpc' = [wpc EXCEPT ![w] = "exited"]
            /\ rc' = [rc EXCEPT ![w] = ArgparseErrorCode]
    /\ UNCHANGED <<ovars, argv, study, cur, r2, nrun, r2table, svars, evars>>

\* the operating system kills a running process
Signal(w) ==
    /\ Running(w)
    /\ wpc' = [wpc EXCEPT ![w] = "exited"]
    /\ rc' = [rc EXCEPT ![w] = KilledCode]
    /\ UNCHANGED <<ovars, argv, args, study, cur, r2, nrun, r2table, svars, evars>>

----------------------------------------------------------------------------
(* The orchestrated search *)

WorkerInit ==
    /\ wpc = [w \in Procs |-> "unborn"]
    /\ argv = [w \in Procs |-> <<>>]
    /\ args = [w \in Procs |-> NoArgs]
    /\ rc = [w \in Procs |-> 0]
    /\ study = [w \in Procs |-> NoStudy]
    /\ cur = [w \in Procs |-> 0]
    /\ r2 = [w \in Procs |-> <<>>]
    /\ nrun = [w \in Procs |-> 0]

\* the data path and the evaluation are not part of this specification
SplitIdle ==
    /\ spc = "idle"
    /\ files = <<>>
    /\ X_ol_train = <<>>
    /\ X_cl_train = <<>>
    /\ fold = 0
    /\ train_index = {}
    /\ test_index = {}
    /\ X_train_ol_i = {}
    /\ X_train_cl_i = {}
    /\ X_test_cl_i = {}

EvalIdle ==
    /\ epc = "idle"
    /\ controller = <<>>
    /\ C_plant = <<>>
    /\ Up_cl = <<>>
    /\ Up_ol = <<>>
    /\ U_test_cl = <<>>
    /\ U_test_ol = <<>>

Init ==
    /\ opc = "unlink"
    /\ db \in {EmptyDb, StaleDb}
    /\ creator = NoStudy
    /\ processes = <<>>
    /\ widx = 1
    /\ waited = {}
    /\ error = NoError
    /\ hist = NoHist
    /\ WorkerInit
    /\ r2table = <<>>
    /\ SplitIdle
    /\ EvalIdle

Next ==
    \/ Unlink
    \/ create_study
    \/ \E p \in Procs : Popen(p)
    \/ Wait
    \/ \E w \in Procs : ParseArgs(w)
    \/ \E w \in Procs : Signal(w)

Spec == Init /\ [][Next]_vars

----------------------------------------------------------------------------
(* Trials: optuna as used by objective() and study.optimize() *)

\* candidate values of trial.suggest_float('alpha', low=1e-12, high=1e12)
AlphaVals == {1, 2}

\* r2 scores a fold can yield
ScoreVals == {-11, 0}

Folds == 1..n_splits

RECURSIVE SumSeq(_)
SumSeq(s) ==
    IF s = <<>> THEN 0 ELSE Head(s) + SumSeq(Tail(s))

RECURSIVE MaxSeq(_)
MaxSeq(s) ==
    IF Len(s) = 1 THEN s[1]
    ELSE LET m == MaxSeq(Tail(s)) IN IF Head(s) > m THEN Head(s) ELSE m

\* the sum returned where the mean was meant
MeanAsSum(s) ==
    [num |-> SumSeq(s), den |-> 1]

\* np.mean(r2) as the fraction sum/len
Mean(s) ==
    [num |-> SumSeq(s), den |-> Len(s)]

RECURSIVE Insert(_, _)
Insert(x, s) ==
    IF s = <<>> THEN <<x>>
    ELSE IF x <= Head(s) THEN <<x>> \o s
    ELSE <<Head(s)>> \o Insert(x, Tail(s))

RECURSIVE Sort(_)
Sort(s) ==
    IF s = <<>> THEN <<>> ELSE Insert(Head(s), Sort(Tail(s)))

\* twice np.percentile(values, 50) (linear interpolation)
Median2(s) ==
    LET t == Sort(s)
        n == Len(s)
    IN t[(n + 1) \div 2] + t[(n + 2) \div 2]

Completed(trials) ==
    SelectSeq(trials, LAMBDA t : t.state = "completed")

\* ThresholdPruner(lower).prune: the latest intermediate value is below lower
ThresholdPrune(t) ==
    /\ t.iv # <<>>
    /\ t.iv[Len(t.iv)] < lower

\* MedianPruner().prune: at least n_startup_trials completed trials, and the
\* trial's best intermediate value is below the median, over the completed
\* trials, of the intermediate value at the trial's last step
MedianPrune(t, trials) ==
    LET done == Completed(trials)
        step == Len(t.iv)
        at == SelectSeq(done, LAMBDA d : Len(d.iv) >= step)
        vals == [k \in 1..Len(at) |-> at[k].iv[step]]
    IN /\ Len(done) >= n_startup_trials
       /\ step > 0
       /\ vals # <<>>
       /\ 2 * MaxSeq(t.iv) < Median2(vals)

\* trial.should_prune(): study.pruner.prune(study, trial)
should_prune(st, t, trials) ==
    CASE st.pruner = "threshold" -> ThresholdPrune(t)
      [] st.pruner = "median" -> MedianPrune(t, trials)
      [] OTHER -> FALSE

\* a seeded sampler draws a fixed value for a given history; an unseeded one
\* draws from fresh entropy
SeededDraw(seed, n) ==
    CHOOSE a \in AlphaVals : (a + seed + n) % 2 = 0

Suggest(st, trials) ==
    IF st.seeded THEN {SeededDraw(st.sampler_seed, Len(trials))} ELSE AlphaVals

\* optuna.load_study(study_name=None, storage=...): no sampler and no pruner
\* are passed, so the study object gets the defaults TPESampler() (seed None)
\* and MedianPruner()
LoadedStudy ==
    [loaded |-> TRUE, seeded |-> FALSE, sampler_seed |-> 0, pruner |-> "median"]

\* TrialPruned handled like any other exception of the objective
TrialPrunedAsFailure ==
    [state |-> "failed", reraise |-> TRUE]

\* how study.optimize ends a trial whose objective raised optuna.TrialPruned
TrialPrunedOutcome ==
    [state |-> "pruned", reraise |-> FALSE]

NewTrial(w) ==
    [state |-> "running", alpha |-> 0, iv |-> <<>>, steps |-> <<>>,
     value |-> [num |-> 0, den |-> 1], by |-> w]

\* trial.report(value, step): the value is stored under its step tag; a step
\* that already has a value is left as it is
report(t, value, step) ==
    IF \E j \in 1..Len(t.steps) : t.steps[j] = step
    THEN t
    ELSE [t EXCEPT !.iv = Append(@, value), !.steps = Append(@, step)]

\* the pruning check made after the last fold only
AfterReportLastOnly(n) ==
    IF n = n_splits THEN "check" ELSE "fold"

\* where the loop body stands after trial.report of its n-th pass: at
\* `if trial.should_prune()`
AfterReport(n) ==
    "check"

\* joblib.load x2, then optuna.load_study(study_name=None, storage=args.study_path)
load_study(w) ==
    /\ wpc[w] = "load"
    /\ IF db.exists /\ Len(db.studies) = 1 /\ args[w].study_path = storage_url
       THEN /\ study' = [study EXCEPT ![w] = LoadedStudy]
            /\ wpc' = [wpc EXCEPT ![w] = "optimize"]
            /\ rc' = rc
       ELSE /\ study' = study
            /\ wpc' = [wpc EXCEPT ![w] = "exited"]
            /\ rc' = [rc EXCEPT ![w] = UncaughtCode]
    /\ UNCHANGED <<ovars, argv, args, cur, r2, nrun, r2table, svars, evars>>

\* study.optimize(objective): no n_trials, so the loop never ends by itself;
\* one iteration creates the next trial and calls objective(trial)
StartTrial(w) ==
    /\ wpc[w] = "optimize"
    /\ Len(db.trials) < MaxTrials
    /\ db' = [db EXCEPT !.trials = Append(@, NewTrial(w))]
    /\ cur' = [cur EXCEPT ![w] = Len(db.trials) + 1]
    /\ r2' = [r2 EXCEPT ![w] = <<>>]
    /\ nrun' = [nrun EXCEPT ![w] = @ + 1]
    /\ wpc' = [wpc EXCEPT ![w] = "fold"]
    /\ UNCHANGED <<opc, creator, processes, widx, waited, error, hist,
                   argv, args, rc, study, r2table, svars, evars>>

\* one pass of the loop body up to trial.report(r2_i, step=i), i counting the
\* passes from 0: suggest alpha (the same value on every call of a trial),
\* fit, compose, predict, score
RunFold(w) ==
    /\ wpc[w] = "fold"
    /\ LET t == db.trials[cur[w]]
           i == Len(r2[w]) + 1
       IN \E a \in (IF t.alpha = 0 THEN Suggest(study[w], db.trials) ELSE {t.alpha}) :
            LET r2_i == r2table[a][i]
            IN /\ r2' = [r2 EXCEPT ![w] = Append(@, r2_i)]
               /\ db' = [db EXCEPT !.trials[cur[w]] =
                            report([t EXCEPT !.alpha = a], r2_i, i - 1)]
    /\ wpc' = [wpc EXCEPT ![w] = AfterReport(Len(r2[w]) + 1)]
    /\ UNCHANGED <<opc, creator, processes, widx, waited, error, hist,
                   argv, args, rc, study, cur, nrun, r2table, svars, evars>>

\* `if trial.should_prune(): raise optuna.TrialPruned()`, caught by
\* study.optimize; otherwise the next fold, or the end of the loop
CheckPrune(w) ==
    /\ wpc[w] = "check"
    /\ LET t == db.trials[cur[w]]
       IN IF should_prune(study[w], t, db.trials)
          THEN /\ db' = [db EXCEPT !.trials[cur[w]] =
                            [t EXCEPT !.state = TrialPrunedOutcome.state,
                                      !.value = [num |-> t.iv[Len(t.iv)], den |-> 1]]]
               /\ cur' = [cur EXCEPT ![w] = 0]
               /\ IF TrialPrunedOutcome.reraise
                  THEN /\ wpc' = [wpc EXCEPT ![w] = "exited"]
                       /\ rc' = [rc EXCEPT ![w] = UncaughtCode]
                  ELSE /\ wpc' = [wpc EXCEPT ![w] = "optimize"]
                       /\ rc' = rc
          ELSE /\ db' = db
               /\ cur' = cur
               /\ rc' = rc
               /\ wpc' = [wpc EXCEPT ![w] =
                            IF Len(r2[w]) = n_splits THEN "return" ELSE "fold"]
    /\ UNCHANGED <<opc, creator, processes, widx, waited, error, hist,
                   argv, args, study, r2, nrun, r2table, svars, evars>>

\* `return np.mean(r2)`: study.optimize stores the value, state COMPLETE
Return(w) ==
    /\ wpc[w] = "return"
    /\ db' = [db EXCEPT !.trials[cur[w]] =
                 [@ EXCEPT !.state = "completed", !.value = Mean(r2[w])]]
    /\ cur' = [cur EXCEPT ![w] = 0]
    /\ wpc' = [wpc EXCEPT ![w] = "optimize"]
    /\ UNCHANGED <<opc, creator, processes, widx, waited, error, hist,
                   argv, args, rc, study, r2, nrun, r2table, svars, evars>>

\* fit / predict / score raises: study.optimize marks the trial FAIL and
\* re-raises (catch=()), the process dies of the uncaught exception
ObjectiveError(w) ==
    /\ wpc[w] = "fold"
    /\ db' = [db EXCEPT !.trials[cur[w]].state = "failed"]
    /\ cur' = [cur EXCEPT ![w] = 0]
    /\ wpc' = [wpc EXCEPT ![w] = "exited"]
    /\ rc' = [rc EXCEPT ![w] = UncaughtCode]
    /\ UNCHANGED <<opc, creator, processes, widx, waited, error, hist,
                   argv, args, study, r2, nrun, r2table, svars, evars>>

----------------------------------------------------------------------------
(* The worker script started on a study that create_study has created *)

\* the command line the script's parser accepts
DirectArgs ==
    <<ExperimentPath, LiftingFunctionsPath, storage_url, Str(SKLEARN_SPLIT_SEED)>>

ArgvSet ==
    {DirectArgs, PopenArgs, SubSeq(DirectArgs, 1, 3),
     <<ExperimentPath, LiftingFunctionsPath, storage_url, StudyType>>}

TheWorker == CHOOSE w \in Procs : \A v \in Procs : w <= v

InitWorker ==
    /\ opc = "idle"
    /\ db = CreatedDb
    /\ creator = CreatedStudy
    /\ processes = <<>>
    /\ widx = 1
    /\ waited = {}
    /\ error = NoError
    /\ hist = [NoHist EXCEPT !.creates = <<"orchestrator">>]
    /\ wpc = [w \in Procs |-> IF w = TheWorker THEN "parse" ELSE "unborn"]
    /\ argv \in {[w \in Procs |-> IF w = TheWorker THEN a ELSE <<>>] : a \in ArgvSet}
    /\ args = [w \in Procs |-> NoArgs]
    /\ rc = [w \in Procs |-> 0]
    /\ study = [w \in Procs |-> NoStudy]
    /\ cur = [w \in Procs |-> 0]
    /\ r2 = [w \in Procs |-> <<>>]
    /\ nrun = [w \in Procs |-> 0]
    /\ r2table \in [AlphaVals -> [Folds -> ScoreVals]]
    /\ SplitIdle
    /\ EvalIdle

NextWorker ==
    \/ \E w \in Procs : ParseArgs(w)
    \/ \E w \in Procs : load_study(w)
    \/ \E w \in Procs : StartTrial(w)
    \/ \E w \in Procs : RunFold(w)
    \/ \E w \in Procs : CheckPrune(w)
    \/ \E w \in Procs : Return(w)
    \/ \E w \in Procs : ObjectiveError(w)
    \/ \E w \in Procs : Signal(w)

SpecWorker == InitWorker /\ [][NextWorker]_vars

----------------------------------------------------------------------------
(* Data path: action_preprocess_experiments and the grouped split of objective() *)

\* Number of validation episodes
n_valid == 2

\* Number of points to skip at the beginning of each episode
n_skip == 500

\* most CSV files of a data set
MaxFiles == 8

\* row counts of a CSV file: one or two rows beyond the skipped ones
FileRows == {n_skip + 1, n_skip + 2}

\* X_ep[n_skip:, :] of episode ep, a file of `rows` rows; a row is kept as
\* (episode, sample number): the open-loop and the closed-loop episode are
\* stacked from the same CSV columns, so they have the same rows
Episode(ep, rows) ==
    [j \in 1..(IF rows > n_skip THEN rows - n_skip ELSE 0) |->
        [ep |-> ep, k |-> n_skip + j]]

\* for (ep, file) in enumerate(sorted(glob)): episodes.append((ep, X_ep[n_skip:]))
Episodes(f) ==
    [i \in 1..Len(f) |-> Episode(i - 1, f[i])]

\* pykoop.combine_episodes(episodes, episode_feature=True): the episodes
\* stacked in order, the episode number as column 0
RECURSIVE combine_episodes(_)
combine_episodes(eps) ==
    IF eps = <<>> THEN <<>> ELSE Head(eps) \o combine_episodes(Tail(eps))

\* groups taken from a data column instead of the episode column
GroupsFromSample(X) ==
    [r \in 1..Len(X) |-> X[r].k]

\* groups=dataset['open_loop']['X_train'][:, 0]
Groups(X) ==
    [r \in 1..Len(X) |-> X[r].ep]

\* GroupShuffleSplit(test_size=0.2): n_test = ceil(0.2 * n_groups)
NTest(n_groups) ==
    (n_groups + 4) \div 5

\* X[index, :] (as the set of its rows; rows are distinct)
RowsAt(X, index) ==
    {X[r] : r \in index}

\* the raw CSV files are read, cut and combined into the pickled data set
action_preprocess_experiments ==
    /\ spc = "raw"
    /\ LET episodes_ol == Episodes(files)
           episodes_cl == Episodes(files)
           n_train == Len(episodes_ol) - n_valid
       IN /\ X_ol_train' = combine_episodes(SubSeq(episodes_ol, 1, n_train))
          /\ X_cl_train' = combine_episodes(SubSeq(episodes_cl, 1, n_train))
    /\ spc' = "pickled"
    /\ UNCHANGED <<ovars, wvars, r2table, files, fold, train_index, test_index,
                   X_train_ol_i, X_train_cl_i, X_test_cl_i, evars>>

\* one (train_index, test_index) of gss.split(X, groups) and the train-test
\* split of the loop body: a shuffled choice of n_test groups is the test
\* side, the other groups the train side; an empty train side is a ValueError
GssSplit ==
    /\ spc \in {"pickled", "split"}
    /\ fold < n_splits
    /\ LET groups == Groups(X_ol_train)
           classes == {groups[r] : r \in 1..Len(groups)}
           n_test == NTest(Cardinality(classes))
           n_train == Cardinality(classes) - n_test
       IN IF n_train = 0
          THEN /\ spc' = "error"
               /\ UNCHANGED <<fold, train_index, test_index,
                              X_train_ol_i, X_train_cl_i, X_test_cl_i>>
          ELSE \E group_test \in SUBSET classes :
                 /\ Cardinality(group_test) = n_test
                 /\ LET tr == {r \in 1..Len(groups) : groups[r] \notin group_test}
                        te == {r \in 1..Len(groups) : groups[r] \in group_test}
                    IN /\ train_index' = tr
                       /\ test_index' = te
                       /\ X_train_ol_i' = RowsAt(X_ol_train, tr)
                       /\ X_train_cl_i' = RowsAt(X_cl_train, tr)
                       /\ X_test_cl_i' = RowsAt(X_cl_train, te)
                 /\ fold' = fold + 1
                 /\ spc' = "split"
    /\ UNCHANGED <<ovars, wvars, r2table, files, X_ol_train, X_cl_train, evars>>

InitSplit ==
    /\ opc = "idle"
    /\ db = EmptyDb
    /\ creator = NoStudy
    /\ processes = <<>>
    /\ widx = 1
    /\ waited = {}
    /\ error = NoError
    /\ hist = NoHist
    /\ WorkerInit
    /\ r2table = <<>>
    /\ spc = "raw"
    /\ \E n \in (n_valid + 1)..MaxFiles :
           files \in [1..n -> FileRows]
    /\ X_ol_train = <<>>
    /\ X_cl_train = <<>>
    /\ fold = 0
    /\ train_index = {}
    /\ test_index = {}
    /\ X_train_ol_i = {}
    /\ X_train_cl_i = {}
    /\ X_test_cl_i = {}
    /\ EvalIdle

NextSplit ==
    \/ action_preprocess_experiments
    \/ GssSplit

SpecSplit == InitSplit /\ [][NextSplit]_vars

----------------------------------------------------------------------------
(* Exact arithmetic and matrices (numpy) for action_evaluate_models *)

Abs(n) == IF n < 0 THEN -n ELSE n

RECURSIVE Gcd(_, _)
Gcd(a, b) ==
    IF b = 0 THEN a ELSE Gcd(b, a % b)

\* the fraction n/d in lowest terms, d > 0
Rat(n, d) ==
    LET g == Gcd(Abs(n), Abs(d))
        sg == IF d < 0 THEN -1 ELSE 1
    IN [num |-> sg * (n \div g), den |-> sg * (d \div g)]

Zero == Rat(0, 1)

One == Rat(1, 1)

RAdd(x, y) == Rat(x.num * y.den + y.num * x.den, x.den * y.den)

RNeg(x) == [num |-> -x.num, den |-> x.den]

RSub(x, y) == RAdd(x, RNeg(y))

RMul(x, y) == Rat(x.num * y.num, x.den * y.den)

\* a matrix is the sequence of its rows; it has at least one row
NRows(M) == Len(M)

NCols(M) == Len(M[1])

\* np.zeros((r, c))
Zeros(r, c) ==
    [i \in 1..r |-> [j \in 1..c |-> Zero]]

\* np.eye(n)
Eye(n) ==
    [i \in 1..n |-> [j \in 1..n |-> IF i = j THEN One ELSE Zero]]

\* np.hstack([A, B])
HStack(A, B) ==
    [i \in 1..NRows(A) |-> A[i] \o B[i]]

Dot(A, B, i, j) ==
    LET RECURSIVE Acc(_)
        Acc(k) == IF k = 0 THEN Zero ELSE RAdd(Acc(k - 1), RMul(A[i][k], B[k][j]))
    IN Acc(NCols(A))

\* A @ B
MatMul(A, B) ==
    [i \in 1..NRows(A) |-> [j \in 1..NCols(B) |-> Dot(A, B, i, j)]]

\* A - B
MatSub(A, B) ==
    [i \in 1..NRows(A) |-> [j \in 1..NCols(A) |-> RSub(A[i][j], B[i][j])]]

\* -A
MatNeg(A) ==
    [i \in 1..NRows(A) |-> [j \in 1..NCols(A) |-> RNeg(A[i][j])]]

\* M[:, a:b] (columns a+1 .. b)
Cols(M, a, b) ==
    [i \in 1..NRows(M) |-> SubSeq(M[i], a + 1, b)]

\* np.block([[a, b, c, d], [e, f, g, h]])
Block(top, bottom) ==
    HStack(HStack(HStack(top[1], top[2]), top[3]), top[4])
        \o HStack(HStack(HStack(bottom[1], bottom[2]), bottom[3]), bottom[4])

\* C_plant @ np.hstack([np.eye(C_plant.shape[1]),
\*                      np.zeros((C_plant.shape[1], width - C_plant.shape[1]))])
PadOutput(C, width) ==
    MatMul(C, HStack(Eye(NCols(C)), Zeros(NCols(C), width - NCols(C))))

\* the block matrix with the feedback term of the controller row added
\* instead of subtracted
ComposeSignSlip(Ac, Bc, Cc, Dc, Ap, Bp, Cp) ==
    Block(<<Ac, MatMul(Bc, Cp), Bc, Zeros(NRows(Bc), NCols(Bp))>>,
          <<MatMul(Bp, Cc), MatSub(Ap, MatMul(MatMul(Bp, Dc), Cp)),
            MatMul(Bp, Dc), Bp>>)

\* np.block([[Ac, -Bc @ Cp, Bc, np.zeros((Bc.shape[0], Bp.shape[1]))],
\*           [Bp @ Cc, Ap - Bp @ Dc @ Cp, Bp @ Dc, Bp]])
Compose(Ac, Bc, Cc, Dc, Ap, Bp, Cp) ==
    Block(<<Ac, MatNeg(MatMul(Bc, Cp)), Bc, Zeros(NRows(Bc), NCols(Bp))>>,
          <<MatMul(Bp, Cc), MatSub(Ap, MatMul(MatMul(Bp, Dc), Cp)),
            MatMul(Bp, Dc), Bp>>)

\* ClKoopmanPipeline.n_states_out_ of the closed-loop pipeline: controller
\* states plus lifted plant states
ClStatesOut(Bc, Up) ==
    NRows(Bc) + NRows(Up)

\* KoopmanPipeline.n_states_out_ of the open-loop pipeline: lifted plant states
OlStatesOut(Up) ==
    NRows(Up)

\* U_test_cl, from the plant of the closed-loop search
UTestCl(ctl, C, Up) ==
    LET Ap == Cols(Up, 0, NRows(Up))
        Bp == Cols(Up, NRows(Up), NCols(Up))
        Cp == PadOutput(C, ClStatesOut(ctl.Bc, Up) - NRows(ctl.Bc))
    IN Compose(ctl.Ac, ctl.Bc, ctl.Cc, ctl.Dc, Ap, Bp, Cp)

\* U_test_ol, from the plant of the open-loop search
UTestOl(ctl, C, Up) ==
    LET Ap == Cols(Up, 0, NRows(Up))
        Bp == Cols(Up, NRows(Up), NCols(Up))
        Cp == PadOutput(C, OlStatesOut(Up))
    IN Compose(ctl.Ac, ctl.Bc, ctl.Cc, ctl.Dc, Ap, Bp, Cp)

\* the test controller is unpacked and both closed-loop matrices are composed
action_evaluate_models ==
    /\ epc = "loaded"
    /\ U_test_cl' = UTestCl(controller, C_plant, Up_cl)
    /\ U_test_ol' = UTestOl(controller, C_plant, Up_ol)
    /\ epc' = "composed"
    /\ UNCHANGED <<ovars, wvars, r2table, svars, controller, C_plant, Up_cl, Up_ol>>

\* most controller states, lifted plant states, outputs and plant inputs
MaxDim == 2

\* an r x c matrix with v on the diagonal and w elsewhere
Pat(r, c, vw) ==
    [i \in 1..r |-> [j \in 1..c |-> IF i = j THEN vw[1] ELSE vw[2]]]

\* an r x (r + m) plant matrix [A | B]: A with a on the diagonal, B filled with b
PlantPat(r, m, ab) ==
    [i \in 1..r |-> [j \in 1..(r + m) |->
        IF j > r THEN ab[2] ELSE IF i = j THEN ab[1] ELSE Zero]]

\* (diagonal, off-diagonal) values of Ac, Bc, Cc, Dc
CtlVals ==
    {<<<<Rat(1, 2), Zero>>, <<One, Zero>>, <<One, Zero>>, <<Zero, Zero>>>>,
     <<<<One, Rat(-1, 1)>>, <<Rat(-1, 1), Rat(2, 1)>>, <<Rat(2, 1), One>>,
       <<One, Rat(-1, 1)>>>>,
     <<<<Rat(1, 2), Zero>>, <<Rat(-1, 1), Rat(2, 1)>>, <<One, Zero>>,
       <<One, Rat(-1, 1)>>>>,
     <<<<One, Rat(-1, 1)>>, <<One, Zero>>, <<Rat(2, 1), One>>, <<Zero, Zero>>>>}

CplantVals == {<<One, Zero>>, <<Rat(2, 1), One>>}

UpVals == {<<Rat(9, 10), One>>, <<Rat(-1, 3), Rat(2, 1)>>}

InitEval ==
    /\ opc = "idle"
    /\ db = EmptyDb
    /\ creator = NoStudy
    /\ processes = <<>>
    /\ widx = 1
    /\ waited = {}
    /\ error = NoError
    /\ hist = NoHist
    /\ WorkerInit
    /\ r2table = <<>>
    /\ SplitIdle
    /\ epc = "loaded"
    /\ \E nc \in 1..MaxDim, np \in 1..MaxDim, p \in 1..MaxDim, m \in 1..MaxDim :
         \E q \in 1..np :
           /\ controller \in
                  {[Ac |-> Pat(nc, nc, v[1]), Bc |-> Pat(nc, p, v[2]),
                    Cc |-> Pat(m, nc, v[3]), Dc |-> Pat(m, p, v[4])] :
                       v \in CtlVals}
           /\ C_plant \in {Pat(p, q, v) : v \in CplantVals}
           /\ Up_cl \in {PlantPat(np, m, v) : v \in UpVals}
           /\ Up_ol \in {PlantPat(np, m, v) : v \in UpVals}
    /\ U_test_cl = <<>>
    /\ U_test_ol = <<>>

NextEval ==
    action_evaluate_models

SpecEval == InitEval /\ [][NextEval]_vars

----------------------------------------------------------------------------
(* Claims about the orchestrated search (Spec) *)

\* C1: when the orchestrator raises because a worker exited with a negative
\* code, it has waited on every launched worker, and the error names the
\* failing process and its exit code.
C1_AllWaitedBeforeRaise ==
    opc = "raised" =>
        /\ \A k \in 1..Len(processes) : processes[k] \in waited
        /\ error.raised
        /\ rc[error.pid] < 0
        /\ error.code = rc[error.pid]

\* C2: the orchestrator returns normally only if every worker exited with
\* code 0; any other exit status makes it raise.
C2_DoneOnlyIfAllZero ==
    opc = "done" => \A w \in Procs : Exited(w) /\ rc[w] = 0

\* C4: the search terminates with every one of the n_processes workers having
\* run exactly its budget of n_trials trials and exited.
C4_EveryWorkerRunsBudget ==
    opc = "done" => \A w \in Procs : Exited(w) /\ nrun[w] = n_trials

\* C6: the study storage is wiped and created by the orchestrator before any
\* worker is launched, exactly once, never by a worker, and it is never wiped
\* while a worker is running.
C6_StudyCreatedOnceBeforeWorkers ==
    /\ (\E w \in Procs : Launched(w)) =>
           /\ db.exists
           /\ Len(db.studies) = 1
           /\ hist.creates = <<"orchestrator">>
    /\ Len(hist.creates) <= 1
    /\ hist.liveWipes = 0
    /\ (opc \in {"spawn", "wait", "done", "raised"} /\ hist.wipes = 0) =>
           hist.creates = <<"orchestrator">>

\* C6 witness: a stale data base was wiped, the study created once, and a
\* worker is running on it.
C6_Witness ==
    /\ \E w \in Procs : Running(w)
    /\ hist.wipes = 1
    /\ hist.creates = <<"orchestrator">>
    /\ db.exists

\* C7: every worker that got past its argument parsing holds the launch
\* arguments as the orchestrator passed them, the split seed being
\* SKLEARN_SPLIT_SEED.
C7_ArgsTakenOver ==
    \A w \in Procs :
        (Launched(w) /\ wpc[w] # "parse" /\ ~(Exited(w) /\ rc[w] = KilledCode)) =>
            /\ args[w].parsed
            /\ args[w].experiment_path = ExperimentPath
            /\ args[w].lifting_functions_path = LiftingFunctionsPath
            /\ args[w].study_path = storage_url
            /\ args[w].sklearn_split_seed = SKLEARN_SPLIT_SEED

----------------------------------------------------------------------------
(* Claims about the trials of a worker (SpecWorker) *)

\* C3: a trial whose score for fold i is below the lower bound is pruned right
\* after fold i: no intermediate value of a later fold is recorded, and once the
\* pruning check has run the trial is in state pruned.
C3_BelowLowerPruned ==
    \A k \in 1..Len(db.trials) :
        LET t == db.trials[k]
        IN \A i \in 1..Len(t.iv) :
               t.iv[i] < lower =>
                   /\ Len(t.iv) = i
                   /\ \/ t.state = "pruned"
                      \/ t.state = "running" /\ wpc[t.by] \in {"check", "exited"}

\* C5: the step in which the pruning signal ends a trial leaves the trial
\* pruned (not failed), the worker alive at the top of its trial loop with no
\* exit code, and the orchestrator without an error; a pruned trial stays pruned.
C5_PruneStep(w) ==
    /\ wpc[w] = "check"
    /\ should_prune(study[w], db.trials[cur[w]], db.trials)
    /\ wpc'[w] # "check"
    /\ ~(wpc'[w] = "exited" /\ rc'[w] = KilledCode)

C5_PrunedIsNormal ==
    [][/\ \A w \in Procs :
              C5_PruneStep(w) =>
                  /\ db'.trials[cur[w]].state = "pruned"
                  /\ wpc'[w] = "optimize"
                  /\ rc' = rc
                  /\ error' = error
                  /\ opc' = opc
       /\ \A k \in 1..Len(db.trials) :
              db.trials[k].state = "pruned" => db'.trials[k].state = "pruned"]_vars

\* C5 witness: a trial was pruned and its worker has gone on to a later trial.
C5_Witness ==
    \E k \in 1..Len(db.trials) :
        /\ db.trials[k].state = "pruned"
        /\ \E j \in (k + 1)..Len(db.trials) : db.trials[j].by = db.trials[k].by
        /\ Running(db.trials[k].by)

\* C8: every hyperparameter proposal comes from a sampler seeded with
\* OPTUNA_TPE_SEED.
C8_ProposalsSeeded ==
    \A k \in 1..Len(db.trials) :
        db.trials[k].alpha # 0 =>
            /\ study[db.trials[k].by].seeded
            /\ study[db.trials[k].by].sampler_seed = OPTUNA_TPE_SEED

----------------------------------------------------------------------------
(* Claims about the grouped split (SpecSplit) *)

EpisodesOf(rows) ==
    {x.ep : x \in rows}

\* C9: in every fold no episode index is both in the fold-train and in the
\* fold-test partition, for the open-loop rows and for the closed-loop rows
\* selected with the same row indices.
C9_NoEpisodeInTrainAndTest ==
    spc = "split" =>
        /\ EpisodesOf(RowsAt(X_ol_train, train_index))
               \cap EpisodesOf(RowsAt(X_ol_train, test_index)) = {}
        /\ EpisodesOf(X_train_ol_i) \cap EpisodesOf(X_test_cl_i) = {}
        /\ EpisodesOf(X_train_cl_i) \cap EpisodesOf(X_test_cl_i) = {}
        /\ train_index \cap test_index = {}
        /\ train_index \cup test_index = 1..Len(X_ol_train)

\* C9 witness: the last fold is split, both sides hold rows, and a test
\* episode has more than one row.
C9_Witness ==
    /\ spc = "split"
    /\ fold = n_splits
    /\ X_train_cl_i # {}
    /\ \E x \in X_test_cl_i, y \in X_test_cl_i : x.ep = y.ep /\ x.k # y.k

----------------------------------------------------------------------------
(* Claims about the closed-loop composition (SpecEval) *)

RECURSIVE RSumTo(_, _)
RSumTo(F(_), n) ==
    IF n = 0 THEN Zero ELSE RAdd(RSumTo(F, n - 1), F(n))

\* entry (k, j) of C_plant padded with zero columns
PaddedEntry(C, k, j) ==
    IF j <= NCols(C) THEN C[k][j] ELSE Zero

\* entry (i, j) of [[A_c, -B_c*Cp, B_c, 0], [B_p*C_c, A_p - B_p*D_c*Cp, B_p*D_c, B_p]]
ExpectedEntry(ctl, C, Up, i, j) ==
    LET nc == NRows(ctl.Ac)
        np == NRows(Up)
        p == NCols(ctl.Bc)
        m == NCols(Up) - np
        Ap(a, b) == Up[a][b]
        Bp(a, b) == Up[a][np + b]
        BcCp(a, b) == RSumTo(LAMBDA k : RMul(ctl.Bc[a][k], PaddedEntry(C, k, b)), p)
        BpCc(a, b) == RSumTo(LAMBDA k : RMul(Bp(a, k), ctl.Cc[k][b]), m)
        BpDc(a, b) == RSumTo(LAMBDA k : RMul(Bp(a, k), ctl.Dc[k][b]), m)
        BpDcCp(a, b) == RSumTo(LAMBDA l : RMul(BpDc(a, l), PaddedEntry(C, l, b)), p)
    IN IF i <= nc
       THEN IF j <= nc THEN ctl.Ac[i][j]
            ELSE IF j <= nc + np THEN RNeg(BcCp(i, j - nc))
            ELSE IF j <= nc + np + p THEN ctl.Bc[i][j - nc - np]
            ELSE Zero
       ELSE IF j <= nc THEN BpCc(i - nc, j)
            ELSE IF j <= nc + np THEN RSub(Ap(i - nc, j - nc), BpDcCp(i - nc, j - nc))
            ELSE IF j <= nc + np + p THEN BpDc(i - nc, j - nc - np)
            ELSE Bp(i - nc, j - nc - np - p)

Expected(ctl, C, Up) ==
    [i \in 1..(NRows(ctl.Ac) + NRows(Up)) |->
        [j \in 1..(NRows(ctl.Ac) + NCols(Up) + NCols(ctl.Bc)) |->
            ExpectedEntry(ctl, C, Up, i, j)]]

LiteralController ==
    [Ac |-> <<<<Rat(1, 2)>>>>, Bc |-> <<<<One>>>>, Cc |-> <<<<One>>>>,
     Dc |-> <<<<Zero>>>>]

LiteralPlant == <<<<Rat(9, 10), One>>>>

LiteralUcl ==
    <<<<Rat(1, 2), Rat(-1, 1), One, Zero>>, <<One, Rat(9, 10), Zero, One>>>>

----------------------------------------------------------------------------
(* Claims about the outcome and the order of a trial (SpecWorker) *)

Terminal(t) ==
    t.state \in {"completed", "pruned", "failed"}

\* what C12 says of one trial in one step
C12_TrialStep(k) ==
    LET t == db.trials[k]
        u == db'.trials[k]
        w == t.by
    IN \* a score is recorded by the fold that is next in index order, tagged
       \* with that index, and the pruning check follows before another fold
       /\ u.iv # t.iv =>
              /\ wpc[w] = "fold"
              /\ cur[w] = k
              /\ t.state = "running"
              /\ u.state = "running"
              /\ Len(u.iv) = Len(t.iv) + 1
              /\ u.steps = Append(t.steps, Len(t.iv))
              /\ wpc'[w] = "check"
       \* the trial is pruned only at the check that follows a report
       /\ (t.state # "pruned" /\ u.state = "pruned") =>
              /\ wpc[w] = "check"
              /\ u.iv = t.iv
              /\ Len(t.iv) >= 1
              /\ Len(t.iv) = Len(r2[w])

\* C12: within a trial the folds run in index order 0, 1, ..., the score of
\* fold i is recorded with step tag i before fold i+1 begins, a trial is
\* pruned only at the check between the report of a fold and the next fold,
\* and a worker starts a trial only when its earlier trials are terminal.
C12_FoldAndTrialOrder ==
    [][/\ \A k \in 1..Len(db.trials) : C12_TrialStep(k)
       /\ \A k \in 1..Len(db.trials) :
              db.trials[k].steps = [j \in 1..Len(db.trials[k].iv) |-> j - 1]
       /\ Len(db'.trials) > Len(db.trials) =>
              \A k \in 1..Len(db.trials) :
                  db.trials[k].by = db'.trials[Len(db'.trials)].by =>
                      Terminal(db.trials[k])]_vars

\* C12 witness: a worker has completed a trial over steps 0, 1, 2 and stands
\* at the pruning check after fold 0 of its next trial.
C12_Witness ==
    \E k \in 1..Len(db.trials) :
        /\ k + 1 <= Len(db.trials)
        /\ db.trials[k].state = "completed"
        /\ db.trials[k].steps = <<0, 1, 2>>
        /\ db.trials[k + 1].by = db.trials[k].by
        /\ db.trials[k + 1].steps = <<0>>
        /\ wpc[db.trials[k].by] = "check"

====
